---- MODULE Spec2Model ----
(***************************************************************************)
(* The chat gateway of src/main.py: the sliding-window rate limiter        *)
(* (check_rate_limit), the request validator (the pydantic models Message  *)
(* and ChatRequest, applied by the framework before the handler is         *)
(* called) and the POST /api/chat handler (chat), run by one event loop.   *)
(*                                                                         *)
(* The handler is an `async def` that never awaits: from its first line to *)
(* its return or raise it keeps the event loop, the blocking upstream call *)
(* included.  The handler is nevertheless modelled line group by line      *)
(* group, and the event loop is modelled explicitly (running), so that     *)
(* atomicity is a property the model checker decides, not an assumption.   *)
(*                                                                         *)
(* The other routes (/, /health, /api/status, unknown paths) and the       *)
(* add_security_headers middleware are modelled as single exchanges.       *)
(***************************************************************************)
EXTENDS Integers, Sequences, FiniteSets, TLC

\* ------------------------------------------------------------------ bounds
\* The clock (time.time(), in whole seconds) runs from 0 to MaxTime.
MaxTime == 4
\* Number of requests that can be in flight at the same time.
NumReqs == 2

\* ------------------------------------------------------- program constants
\* os.getenv("RATE_LIMIT_REQUESTS", ...): the configured capacity.
RATE_LIMIT_REQUESTS == 2
\* os.getenv("RATE_LIMIT_PERIOD", ...): the configured window, in seconds.
RATE_LIMIT_PERIOD == 3
\* os.getenv("MAX_TOKENS", "2048")
MAX_TOKENS == 2048
\* Field(..., min_items=1, max_items=50)
MinItems == 1
MaxItems == 50
\* Field(..., min_length=1, max_length=10000)
MinContentLength == 1
MaxContentLength == 10000
\* Field(default=1024, ...)
DefaultMaxTokens == 1024
\* Field(default=1.0, ge=0, le=2): temperatures are counted in tenths.
DefaultTemperature == 10
MinTemperature == 0
MaxTemperature == 20

Reqs == 1..NumReqs
Clients == {"10.0.0.1", "unknown"}
\* The client whose requests contend for one record.
Contending == {"10.0.0.1"}
NoReq == 0

DefaultModel == "gpt-3.5-turbo"
valid_models ==
    {"gpt-3.5-turbo", "gpt-4", "gpt-4-turbo-preview", "gpt-4-turbo", "gpt-4o", "gpt-4o-mini"}

RateLimitDetail == "Rate limit exceeded. Please try again later."
GenericDetail == "An error occurred while processing your request. Please try again."
ValidationDetail == "validation error"

VARIABLES
    clock,              \* time.time()
    rate_limit_store,   \* client_ip -> list of admitted request times
    running,            \* the request whose coroutine holds the event loop, or NoReq
    pc,                 \* per request: where its processing stands
    client_ip,          \* per request: req.client.host, or "unknown"
    payload,            \* per request: the JSON body as sent
    request,            \* per request: the ChatRequest the validator built
    current_time,       \* per request: the local of check_rate_limit
    filtered,           \* per request: the list the comprehension of line 47 built
    elapsed,            \* per request: at its call, the clock was more than the period past
                        \*   the oldest time recorded for its client (history)
    limiter,            \* per request: "none", "admitted" or "denied" (history)
    upstream,           \* per request: the arguments of completions.create, if called
    outcome,            \* per request: how the upstream call ended (history)
    response,           \* per request: the HTTP response
    admitted,           \* client_ip -> every time check_rate_limit returned True for (history)
    headers,            \* per request: the headers of its HTTP response
    aux                 \* the last exchange on a route other than /api/chat

vars == <<clock, rate_limit_store, running, pc, client_ip, payload, request, current_time,
          filtered, elapsed, limiter, upstream, outcome, response, admitted, headers, aux>>

\* ------------------------------------------------------------ value shapes
\* Optional values: a tag and a value that is meaningful under tag "int" / "str".
IntOf(n) == [tag |-> "int", v |-> n]
StrOf(s) == [tag |-> "str", v |-> s]
NullInt == [tag |-> "null", v |-> 0]
NullStr == [tag |-> "null", v |-> ""]
AbsentInt == [tag |-> "absent", v |-> 0]
AbsentStr == [tag |-> "absent", v |-> ""]
NoneInt == [tag |-> "none", v |-> 0]
NoneStr == [tag |-> "none", v |-> ""]
NoUsage == [tag |-> "none", prompt_tokens |-> 0, completion_tokens |-> 0, total_tokens |-> 0]
UsageOf(p, c, t) ==
    [tag |-> "usage", prompt_tokens |-> p, completion_tokens |-> c, total_tokens |-> t]

\* A message as sent: its role and its content, the content represented by its
\* length (the validator reads nothing else of it, the handler copies it).
Msg(role, len) == [role |-> role, content |-> len]

\* ---------------------------------------------------------------- validator
\* class Message: role matches ^(user|assistant|system)$, 1 <= len(content) <= 10000.
ValidRole(role) == role \in {"user", "assistant", "system"}

ValidContentBelowMax(len) == len >= MinContentLength /\ len < MaxContentLength

ValidContent(len) == len >= MinContentLength /\ len <= MaxContentLength

ValidMessage(m) == ValidRole(m.role) /\ ValidContent(m.content)

\* messages: List[Message] = Field(..., min_items=1, max_items=50): required, a list.
ValidMessages(f) ==
    /\ f.tag = "list"
    /\ Len(f.v) >= MinItems
    /\ Len(f.v) <= MaxItems
    /\ \A i \in 1..Len(f.v) : ValidMessage(f.v[i])

\* max_tokens: Optional[int] = Field(default=1024, ge=1, le=MAX_TOKENS): the bounds
\* constrain an integer; an omitted field and an explicit null both pass.
ValidMaxTokensFromZero(f) == f.tag = "int" => (f.v >= 0 /\ f.v <= MAX_TOKENS)

ValidMaxTokens(f) == f.tag = "int" => (f.v >= 1 /\ f.v <= MAX_TOKENS)

\* temperature: Optional[float] = Field(default=1.0, ge=0, le=2)
ValidTemperature(f) == f.tag = "int" => (f.v >= MinTemperature /\ f.v <= MaxTemperature)

\* model: Optional[str]: any string, null or nothing.
ValidModelField(f) == f.tag \in {"absent", "null", "str"}

\* The body is accepted as a ChatRequest.
Validate(p) ==
    /\ ValidMessages(p.messages)
    /\ ValidModelField(p.model)
    /\ ValidMaxTokens(p.max_tokens)
    /\ ValidTemperature(p.temperature)

\* A field of the ChatRequest built from an accepted body: the default when
\* the field was omitted, None when it was null, the value otherwise.
FieldValue(f, default) ==
    IF f.tag = "absent" THEN default
    ELSE IF f.tag = "null" THEN [tag |-> "none", v |-> default.v]
    ELSE f

\* The ChatRequest object handed to the handler.
ParseRequest(p) ==
    [messages |-> p.messages.v,
     model |-> FieldValue(p.model, StrOf(DefaultModel)),
     max_tokens |-> FieldValue(p.max_tokens, IntOf(DefaultMaxTokens)),
     temperature |-> FieldValue(p.temperature, IntOf(DefaultTemperature))]

NoRequest ==
    [messages |-> <<>>, model |-> NoneStr, max_tokens |-> NoneInt, temperature |-> NoneInt]

NoPayload ==
    [messages |-> [tag |-> "absent", v |-> <<>>], model |-> AbsentStr,
     max_tokens |-> AbsentInt, temperature |-> AbsentInt]

\* ------------------------------------------------------------- rate limiter
\* line 49: a recorded time stays while current_time - req_time < RATE_LIMIT_PERIOD.
InWindow(now, req_time) == now - req_time < RATE_LIMIT_PERIOD

\* lines 47-50: the list comprehension.
Pruned(record, now) == SelectSeq(record, LAMBDA t : InWindow(now, t))

\* line 53: len(rate_limit_store[client_ip]) >= RATE_LIMIT_REQUESTS
LimitExceededOffByOne(record) == Len(record) > RATE_LIMIT_REQUESTS

LimitExceededGlobal(record) ==
    \E c1, c2 \in DOMAIN rate_limit_store :
        /\ c1 # c2
        /\ Len(rate_limit_store[c1]) + Len(rate_limit_store[c2]) >= RATE_LIMIT_REQUESTS

LimitExceeded(record) == Len(record) >= RATE_LIMIT_REQUESTS

\* line 54: return False: the record is left as pruned.
DeniedRecordCounted(record, now) == Append(record, now)

DeniedRecord(record, now) == record

\* line 57: rate_limit_store[client_ip].append(current_time)
AdmittedRecordTwice(record, now) == Append(Append(record, now), now)

AdmittedRecordFront(record, now) == <<now>> \o record

AdmittedRecord(record, now) == Append(record, now)

\* ------------------------------------------------------------------ handler
\* `async def chat` holds the event loop from its first line to its end, as it
\* awaits nothing: a step of request r needs the loop free or held by r.
SchedulableThreaded(r) == TRUE

Schedulable(r) == running \in {NoReq, r}

\* line 153: the framework builds `request: ChatRequest` from the body before it
\* calls the handler, and answers 422 itself when the body is not accepted.
AfterValidationUnchecked(p) == "handler"

AfterValidation(p) == IF Validate(p) THEN "handler" ELSE "done"

\* lines 160-165: raise HTTPException(429) when check_rate_limit returned False.
AfterLimiterNoRaise(allowed) == "forward"

AfterLimiter(allowed) == IF allowed THEN "forward" ELSE "done"

\* lines 178-180: a model that is not in valid_models (None included) is replaced.
NormalizeModelUnchanged(m) == IF m.tag = "str" THEN m.v ELSE "None"

NormalizeModel(m) == IF m.tag = "str" /\ m.v \in valid_models THEN m.v ELSE DefaultModel

\* lines 183-186: [{"role": msg.role, "content": msg.content} for msg in request.messages]
ConvertMessages(msgs) == [i \in 1..Len(msgs) |-> [role |-> msgs[i].role, content |-> msgs[i].content]]

NoCall ==
    [called |-> FALSE, model |-> "", messages |-> <<>>, max_tokens |-> NoneInt,
     temperature |-> NoneInt]

\* lines 191-196: the arguments of client.chat.completions.create
UpstreamCall(req) ==
    [called |-> TRUE,
     model |-> NormalizeModel(req.model),
     messages |-> ConvertMessages(req.messages),
     max_tokens |-> req.max_tokens,
     temperature |-> req.temperature]

\* What the upstream can do with a call: raise, or return a completion whose
\* choices, model and usage are the provider's.
TransportFailure == "APIConnectionError: Connection error."
AuthFailure == "AuthenticationError: Incorrect API key provided: sk-live"
ProviderFailure == "InternalServerError: The server had an error"
TimeoutFailure == "APITimeoutError: Request timed out."

\* line 91: OpenAI(api_key=api_key) passes no timeout, so the client keeps the
\* timeout the SDK gives it by default; "none" is a client built with timeout=None.
ClientTimeoutNone == "none"

ClientTimeout == "default"

Raises(text) ==
    [kind |-> "raise", text |-> text, choices |-> <<>>, model |-> "", usage |-> NoUsage]

Completion(choices, model, usage) ==
    [kind |-> "response", text |-> "", choices |-> choices, model |-> model, usage |-> usage]

UpstreamOutcomes(call) ==
    {Raises(t) : t \in {TransportFailure, AuthFailure, ProviderFailure}}
    \cup {Completion(ch, m, u) :
            ch \in {<<>>, <<NoneStr>>, <<StrOf("hi")>>, <<StrOf("hi"), StrOf("bye")>>,
                    <<StrOf("bye"), StrOf("hi")>>},
            m \in {call.model, "gpt-4-0613"},
            u \in {NoUsage, UsageOf(5, 1, 6)}}

NoOutcome == [kind |-> "none", text |-> "", choices |-> <<>>, model |-> "", usage |-> NoUsage]

NoResponse ==
    [status |-> 0, detail |-> "", response |-> "", model |-> "", usage |-> NoUsage]

ErrorResponse(status, detail) ==
    [status |-> status, detail |-> detail, response |-> "", model |-> "", usage |-> NoUsage]

\* lines 198-214: what the try block does with the upstream's answer: the
\* exception it ends with (raised by create, by choices[0] on an empty list, or
\* by ChatResponse(response=None)), or "" when it returns.
IndexErrorText == "IndexError: list index out of range"
ResponseTypeErrorText == "ValidationError: response: Input should be a valid string"

TryException(o) ==
    IF o.kind = "raise" THEN o.text
    ELSE IF Len(o.choices) = 0 THEN IndexErrorText
    ELSE IF o.choices[1].tag # "str" THEN ResponseTypeErrorText
    ELSE ""

\* lines 202-206: usage, when the upstream reported one.
UsageDict(o) ==
    IF o.usage.tag = "usage"
    THEN UsageOf(o.usage.prompt_tokens, o.usage.completion_tokens, o.usage.total_tokens)
    ELSE NoUsage

\* lines 199, 210-214: ChatResponse(response=choices[0].message.content, model=response.model, ...)
ChatResponseRequestedModel(call, o) ==
    [status |-> 200, detail |-> "", response |-> o.choices[1].v, model |-> call.model,
     usage |-> UsageDict(o)]

ChatResponse(call, o) ==
    [status |-> 200, detail |-> "", response |-> o.choices[1].v, model |-> o.model,
     usage |-> UsageDict(o)]

\* lines 218-223: except Exception as e: raise HTTPException(500, detail=<fixed text>)
ExceptionDetailLeaky(text) == text

ExceptionDetail(text) == GenericDetail

\* lines 216-223: the except clauses raise; the record of the client is what
\* check_rate_limit left, whether the upstream call failed or not.
RecordAfterUpstreamRolledBack(record, o) ==
    IF TryException(o) # "" /\ Len(record) > 0 THEN SubSeq(record, 1, Len(record) - 1)
    ELSE record

RecordAfterUpstream(record, o) == record

\* lines 190-223: the response of a request whose upstream call ended with o.
HandlerResponse(call, o) ==
    IF TryException(o) # ""
    THEN ErrorResponse(500, ExceptionDetail(TryException(o)))
    ELSE ChatResponse(call, o)

\* ------------------------------------------------------- response headers
\* lines 78-81: the four headers add_security_headers sets.
SecurityHeaders ==
    {"X-Content-Type-Options: nosniff",
     "X-Frame-Options: DENY",
     "X-XSS-Protection: 1; mode=block",
     "Strict-Transport-Security: max-age=31536000; includeSubDomains"}

\* The headers a response has when it is built.
OwnHeaders == {"content-type"}

\* lines 76-82: the middleware sets its headers on the response call_next returned.
add_security_headers(h) == h \cup SecurityHeaders

\* What builds a response: the route ("route"), the framework's handler of
\* HTTPException and of validation errors ("http_exception"), not_found_handler
\* ("not_found_handler"), or internal_error_handler ("internal_error_handler").
\* The first three answer inside add_security_headers.  internal_error_handler
\* (lines 233-240) is registered for 500: the framework calls it for an
\* exception no handler below caught, after that exception has left
\* add_security_headers through `await call_next(request)` (line 77), and
\* sends its response as built.
ResponseHeaders(via) ==
    IF via = "internal_error_handler" THEN OwnHeaders
    ELSE add_security_headers(OwnHeaders)

\* lines 198-223: chat answers with the ChatResponse it returns or with the
\* HTTPException it raises.
ProducedBy(o) == IF TryException(o) # "" THEN "http_exception" ELSE "route"

\* ------------------------------------------------------- the other routes
\* An exchange on a route other than /api/chat: the path, what built the
\* response, its status and detail, the api_available it reports ("" when it
\* reports none), how the probe client.models.list() ended ("none" when it was
\* not called), and the headers the client receives.
NoExchange ==
    [path |-> "", via |-> "", status |-> 0, detail |-> "", api_available |-> "",
     probe |-> "none", headers |-> {}]

Exchange(path, via, status, detail, api_available, probe) ==
    [path |-> path, via |-> via, status |-> status, detail |-> detail,
     api_available |-> api_available, probe |-> probe, headers |-> ResponseHeaders(via)]

\* lines 233-240: the handler of an exception nothing else caught.
internal_error_handler(path, probe) ==
    Exchange(path, "internal_error_handler", 500, "Internal server error", "", probe)

\* lines 225-231
not_found_handler(path) ==
    Exchange(path, "not_found_handler", 404, "Resource not found", "", "none")

\* lines 125-133: a constant dict.
health_check == Exchange("/health", "route", 200, "", "", "none")

\* lines 135-150: the probe runs inside try/except Exception.
api_statusUnguarded(probe) ==
    IF probe = "failed" THEN internal_error_handler("/api/status", probe)
    ELSE Exchange("/api/status", "route", 200, "", "True", probe)

api_status(probe) ==
    Exchange("/api/status", "route", 200, "", IF probe = "ok" THEN "True" ELSE "False", probe)

\* lines 116-123: FileResponse("static/index.html") is built without touching
\* the file, so the try block never raises; the file is opened when the
\* response is sent, after read_root returned, and a missing file is then an
\* exception no handler catches.
read_root(present) ==
    IF present THEN Exchange("/", "route", 200, "", "", "none")
    ELSE internal_error_handler("/", "none")

\* ------------------------------------------------------------------- inputs
Body(msgs, model, max_tokens, temperature) ==
    [messages |-> [tag |-> "list", v |-> msgs], model |-> model,
     max_tokens |-> max_tokens, temperature |-> temperature]

\* The bodies the clients of the gateway send: accepted ones (defaults, an
\* allow-listed model, an unknown model, nulls) and rejected ones.
ChatPayloads ==
    {Body(<<Msg("user", 1)>>, AbsentStr, AbsentInt, AbsentInt),
     Body(<<Msg("system", 1), Msg("user", 10000)>>, StrOf("gpt-4"), IntOf(MAX_TOKENS), IntOf(20)),
     Body(<<Msg("user", 1)>>, StrOf("gpt-5"), NullInt, NullInt),
     Body(<<Msg("user", 1)>>, NullStr, IntOf(1), AbsentInt),
     Body(<<>>, AbsentStr, AbsentInt, AbsentInt),
     Body(<<Msg("user", 1)>>, StrOf("gpt-4"), IntOf(MAX_TOKENS + 1), AbsentInt)}

\* The bodies and upstream answers of the concurrent specification: one accepted
\* body, one rejected body, one upstream failure, one completion.
LimiterPayloads ==
    {Body(<<Msg("user", 1)>>, AbsentStr, AbsentInt, AbsentInt),
     Body(<<>>, AbsentStr, AbsentInt, AbsentInt)}

LimiterOutcomes(call) ==
    {Raises(TransportFailure), Completion(<<StrOf("hi")>>, call.model, UsageOf(5, 1, 6))}

\* The bodies the validator is tried on: message lists of the boundary lengths
\* whose last message takes every boundary role and content length, and every
\* boundary value of the other fields.
EdgeMessages ==
    {Msg(role, len) :
        role \in {"user", "assistant", "system", "admin", ""},
        len \in {0, MinContentLength, MaxContentLength - 1, MaxContentLength,
                 MaxContentLength + 1}}

MessageList(n, last) == [i \in 1..n |-> IF i = n THEN last ELSE Msg("user", 1)]

EdgeMessagesFields ==
    {[tag |-> "absent", v |-> <<>>], [tag |-> "null", v |-> <<>>]}
    \cup {[tag |-> "list", v |-> MessageList(n, m)] :
            n \in {0, MinItems, MinItems + 1, MaxItems - 1, MaxItems, MaxItems + 1},
            m \in EdgeMessages}

EdgeMaxTokens ==
    {AbsentInt, NullInt}
    \cup {IntOf(v) : v \in {-1, 0, 1, DefaultMaxTokens, MAX_TOKENS - 1, MAX_TOKENS,
                            MAX_TOKENS + 1}}

EdgeTemperatures ==
    {AbsentInt, NullInt}
    \cup {IntOf(v) : v \in {MinTemperature - 1, MinTemperature, MaxTemperature,
                            MaxTemperature + 1}}

EdgeModels == {AbsentStr, NullStr, StrOf("gpt-4o"), StrOf("gpt-5")}

ValidatorInputs ==
    {[messages |-> ms, model |-> m, max_tokens |-> mt, temperature |-> t] :
        ms \in EdgeMessagesFields, m \in EdgeModels, mt \in EdgeMaxTokens,
        t \in EdgeTemperatures}

\* -------------------------------------------------------------------- state
Init ==
    /\ clock = 0
    /\ rate_limit_store = [c \in Clients |-> <<>>]
    /\ running = NoReq
    /\ pc = [r \in Reqs |-> "idle"]
    /\ client_ip = [r \in Reqs |-> "unknown"]
    /\ payload = [r \in Reqs |-> NoPayload]
    /\ request = [r \in Reqs |-> NoRequest]
    /\ current_time = [r \in Reqs |-> 0]
    /\ filtered = [r \in Reqs |-> <<>>]
    /\ elapsed = [r \in Reqs |-> FALSE]
    /\ limiter = [r \in Reqs |-> "none"]
    /\ upstream = [r \in Reqs |-> NoCall]
    /\ outcome = [r \in Reqs |-> NoOutcome]
    /\ response = [r \in Reqs |-> NoResponse]
    /\ admitted = [c \in Clients |-> <<>>]
    /\ headers = [r \in Reqs |-> {}]
    /\ aux = NoExchange

\* The event loop after request r ended.
Release(r) == IF running = r THEN NoReq ELSE running

\* The oldest time recorded for a client, -1 when nothing is recorded.
Oldest(record) ==
    IF Len(record) = 0 THEN -1
    ELSE CHOOSE t \in {record[i] : i \in 1..Len(record)} :
            \A i \in 1..Len(record) : t <= record[i]

\* The clock has moved more than RATE_LIMIT_PERIOD past the oldest recorded time.
WindowElapsed(record, now) == Len(record) > 0 /\ now - Oldest(record) > RATE_LIMIT_PERIOD

\* time.time() moves on, whatever the server does.
Tick ==
    /\ clock < MaxTime
    /\ clock' = clock + 1
    /\ UNCHANGED <<rate_limit_store, running, pc, client_ip, payload, request, current_time,
                   filtered, elapsed, limiter, upstream, outcome, response, admitted, headers, aux>>

\* A client sends POST /api/chat with body p.
Receive(r, c, p) ==
    /\ pc[r] = "idle"
    /\ pc' = [pc EXCEPT ![r] = "received"]
    /\ client_ip' = [client_ip EXCEPT ![r] = c]
    /\ payload' = [payload EXCEPT ![r] = p]
    /\ UNCHANGED <<clock, rate_limit_store, running, request, current_time, filtered, elapsed,
                   limiter, upstream, outcome, response, admitted, headers, aux>>

\* The framework validates the body: 422, or the ChatRequest for the handler.
ValidateBody(r) ==
    /\ pc[r] = "received"
    /\ Schedulable(r)
    /\ pc' = [pc EXCEPT ![r] = AfterValidation(payload[r])]
    /\ IF AfterValidation(payload[r]) = "handler"
       THEN /\ request' = [request EXCEPT ![r] = ParseRequest(payload[r])]
            /\ UNCHANGED <<response, headers>>
       ELSE /\ response' = [response EXCEPT ![r] = ErrorResponse(422, ValidationDetail)]
            /\ headers' = [headers EXCEPT ![r] = ResponseHeaders("http_exception")]
            /\ UNCHANGED request
    /\ UNCHANGED <<clock, rate_limit_store, running, client_ip, payload, current_time, filtered,
                   elapsed, limiter, upstream, outcome, admitted, aux>>

\* chat starts and calls check_rate_limit, lines 44 and 48-50: the clock is read
\* and the comprehension builds the pruned list.
PruneRead(r) ==
    /\ pc[r] = "handler"
    /\ Schedulable(r)
    /\ running' = r
    /\ current_time' = [current_time EXCEPT ![r] = clock]
    /\ filtered' = [filtered EXCEPT ![r] = Pruned(rate_limit_store[client_ip[r]], clock)]
    /\ elapsed' = [elapsed EXCEPT ![r] = WindowElapsed(rate_limit_store[client_ip[r]], clock)]
    /\ pc' = [pc EXCEPT ![r] = "prune"]
    /\ UNCHANGED <<clock, rate_limit_store, client_ip, payload, request, limiter, upstream,
                   outcome, response, admitted, headers, aux>>

\* line 47: the pruned list replaces the record.
PruneWrite(r) ==
    /\ pc[r] = "prune"
    /\ Schedulable(r)
    /\ rate_limit_store' = [rate_limit_store EXCEPT ![client_ip[r]] = filtered[r]]
    /\ filtered' = [filtered EXCEPT ![r] = <<>>]
    /\ pc' = [pc EXCEPT ![r] = "check"]
    /\ UNCHANGED <<clock, running, client_ip, payload, request, current_time, elapsed, limiter,
                   upstream, outcome, response, admitted, headers, aux>>

\* lines 53-54 and 160-165: the record is full: check_rate_limit returns False
\* and the handler raises 429.
Deny(r) ==
    /\ pc[r] = "check"
    /\ Schedulable(r)
    /\ LimitExceeded(rate_limit_store[client_ip[r]])
    /\ rate_limit_store' = [rate_limit_store EXCEPT
            ![client_ip[r]] = DeniedRecord(@, current_time[r])]
    /\ limiter' = [limiter EXCEPT ![r] = "denied"]
    /\ pc' = [pc EXCEPT ![r] = AfterLimiter(FALSE)]
    /\ IF AfterLimiter(FALSE) = "done"
       THEN /\ response' = [response EXCEPT ![r] = ErrorResponse(429, RateLimitDetail)]
            /\ headers' = [headers EXCEPT ![r] = ResponseHeaders("http_exception")]
            /\ running' = Release(r)
       ELSE UNCHANGED <<response, running, headers>>
    /\ UNCHANGED <<clock, client_ip, payload, request, current_time, filtered, elapsed,
                   upstream, outcome, admitted, aux>>

\* line 53: the record is not full.
PassCheck(r) ==
    /\ pc[r] = "check"
    /\ Schedulable(r)
    /\ ~LimitExceeded(rate_limit_store[client_ip[r]])
    /\ pc' = [pc EXCEPT ![r] = "append"]
    /\ UNCHANGED <<clock, rate_limit_store, running, client_ip, payload, request, current_time,
                   filtered, elapsed, limiter, upstream, outcome, response, admitted, headers, aux>>

\* lines 57-58: the request is recorded and check_rate_limit returns True.
Admit(r) ==
    /\ pc[r] = "append"
    /\ Schedulable(r)
    /\ rate_limit_store' = [rate_limit_store EXCEPT
            ![client_ip[r]] = AdmittedRecord(@, current_time[r])]
    /\ admitted' = [admitted EXCEPT ![client_ip[r]] = Append(@, current_time[r])]
    /\ limiter' = [limiter EXCEPT ![r] = "admitted"]
    /\ pc' = [pc EXCEPT ![r] = AfterLimiter(TRUE)]
    /\ UNCHANGED <<clock, running, client_ip, payload, request, current_time, filtered, elapsed,
                   upstream, outcome, response, headers, aux>>

\* lines 167-196: the model is normalised and the upstream is called; the call
\* blocks, and the handler keeps the event loop while it does.
Forward(r) ==
    /\ pc[r] = "forward"
    /\ Schedulable(r)
    /\ upstream' = [upstream EXCEPT ![r] = UpstreamCall(request[r])]
    /\ current_time' = [current_time EXCEPT ![r] = 0]
    /\ elapsed' = [elapsed EXCEPT ![r] = FALSE]
    /\ pc' = [pc EXCEPT ![r] = "upstream"]
    /\ UNCHANGED <<clock, rate_limit_store, running, client_ip, payload, request, filtered,
                   limiter, outcome, response, admitted, headers, aux>>

\* lines 198-223: the upstream call ends with o; the handler answers 200 or 500.
UpstreamReturn(r, o) ==
    /\ pc[r] = "upstream"
    /\ Schedulable(r)
    /\ outcome' = [outcome EXCEPT ![r] = o]
    /\ response' = [response EXCEPT ![r] = HandlerResponse(upstream[r], o)]
    /\ headers' = [headers EXCEPT ![r] = ResponseHeaders(ProducedBy(o))]
    /\ pc' = [pc EXCEPT ![r] = "done"]
    /\ running' = Release(r)
    /\ rate_limit_store' = [rate_limit_store EXCEPT
            ![client_ip[r]] = RecordAfterUpstream(@, o)]
    /\ UNCHANGED <<clock, client_ip, payload, request, current_time, filtered, elapsed, limiter,
                   upstream, admitted, aux>>

\* The upstream will not answer the call of request r.
UpstreamHangs(r) ==
    /\ pc[r] = "upstream"
    /\ Schedulable(r)
    /\ pc' = [pc EXCEPT ![r] = "hung"]
    /\ UNCHANGED <<clock, rate_limit_store, running, client_ip, payload, request, current_time,
                   filtered, elapsed, limiter, upstream, outcome, response, admitted, headers,
                   aux>>

\* lines 181-186 and 216-223: the timeout of the client ends the call that got
\* no answer: create raises, and the handler answers as for any exception.
UpstreamTimeout(r) ==
    /\ pc[r] = "hung"
    /\ Schedulable(r)
    /\ ClientTimeout # "none"
    /\ outcome' = [outcome EXCEPT ![r] = Raises(TimeoutFailure)]
    /\ response' = [response EXCEPT ![r] = HandlerResponse(upstream[r], Raises(TimeoutFailure))]
    /\ headers' = [headers EXCEPT ![r] = ResponseHeaders(ProducedBy(Raises(TimeoutFailure)))]
    /\ pc' = [pc EXCEPT ![r] = "done"]
    /\ running' = Release(r)
    /\ rate_limit_store' = [rate_limit_store EXCEPT
            ![client_ip[r]] = RecordAfterUpstream(@, Raises(TimeoutFailure))]
    /\ UNCHANGED <<clock, client_ip, payload, request, current_time, filtered, elapsed, limiter,
                   upstream, admitted, aux>>

\* The response has been sent: nothing of the request is kept.
Retire(r) ==
    /\ pc[r] = "done"
    /\ pc' = [pc EXCEPT ![r] = "idle"]
    /\ client_ip' = [client_ip EXCEPT ![r] = "unknown"]
    /\ payload' = [payload EXCEPT ![r] = NoPayload]
    /\ request' = [request EXCEPT ![r] = NoRequest]
    /\ current_time' = [current_time EXCEPT ![r] = 0]
    /\ filtered' = [filtered EXCEPT ![r] = <<>>]
    /\ elapsed' = [elapsed EXCEPT ![r] = FALSE]
    /\ limiter' = [limiter EXCEPT ![r] = "none"]
    /\ upstream' = [upstream EXCEPT ![r] = NoCall]
    /\ outcome' = [outcome EXCEPT ![r] = NoOutcome]
    /\ response' = [response EXCEPT ![r] = NoResponse]
    /\ headers' = [headers EXCEPT ![r] = {}]
    /\ UNCHANGED <<clock, rate_limit_store, running, admitted, aux>>

\* The state of the chat pipeline, which the other routes leave alone.
chatVars == <<clock, rate_limit_store, running, pc, client_ip, payload, request, current_time,
              filtered, elapsed, limiter, upstream, outcome, response, admitted, headers>>

\* GET /health
HealthCheck ==
    /\ running = NoReq
    /\ aux' = health_check
    /\ UNCHANGED chatVars

\* GET /api/status: the coroutine keeps the event loop during the probe, which
\* returns ("ok") or raises ("failed").
ApiStatus(probe) ==
    /\ running = NoReq
    /\ aux' = api_status(probe)
    /\ UNCHANGED chatVars

\* GET on a path no route serves.
NotFound ==
    /\ running = NoReq
    /\ aux' = not_found_handler("/missing")
    /\ UNCHANGED chatVars

\* GET /, with static/index.html present or missing.
ReadRoot(present) ==
    /\ running = NoReq
    /\ aux' = read_root(present)
    /\ UNCHANGED chatVars

\* Concurrent requests of one client.
Next ==
    \/ Tick
    \/ \E r \in Reqs, c \in Contending, p \in LimiterPayloads : Receive(r, c, p)
    \/ \E r \in Reqs : ValidateBody(r)
    \/ \E r \in Reqs : PruneRead(r)
    \/ \E r \in Reqs : PruneWrite(r)
    \/ \E r \in Reqs : Deny(r)
    \/ \E r \in Reqs : PassCheck(r)
    \/ \E r \in Reqs : Admit(r)
    \/ \E r \in Reqs : Forward(r)
    \/ \E r \in Reqs : \E o \in LimiterOutcomes(upstream[r]) : UpstreamReturn(r, o)
    \/ \E r \in Reqs : Retire(r)

Spec == Init /\ [][Next]_vars

\* One request after the other, with every body of ChatPayloads and every
\* upstream answer of UpstreamOutcomes.
NextPipeline ==
    \/ Tick
    \/ \E c \in Contending, p \in ChatPayloads : Receive(1, c, p)
    \/ ValidateBody(1)
    \/ PruneRead(1)
    \/ PruneWrite(1)
    \/ Deny(1)
    \/ PassCheck(1)
    \/ Admit(1)
    \/ Forward(1)
    \/ \E o \in UpstreamOutcomes(upstream[1]) : UpstreamReturn(1, o)
    \/ Retire(1)

SpecPipeline == Init /\ [][NextPipeline]_vars

\* One request after the other, from either client.
NextLimiter ==
    \/ Tick
    \/ \E c \in Clients, p \in LimiterPayloads : Receive(1, c, p)
    \/ ValidateBody(1)
    \/ PruneRead(1)
    \/ PruneWrite(1)
    \/ Deny(1)
    \/ PassCheck(1)
    \/ Admit(1)
    \/ Forward(1)
    \/ \E o \in LimiterOutcomes(upstream[1]) : UpstreamReturn(1, o)
    \/ Retire(1)

SpecLimiter == Init /\ [][NextLimiter]_vars

\* Requests of both clients in flight together, within one second.
NextClients ==
    \/ \E r \in Reqs, c \in Clients, p \in LimiterPayloads : Receive(r, c, p)
    \/ \E r \in Reqs : ValidateBody(r)
    \/ \E r \in Reqs : PruneRead(r)
    \/ \E r \in Reqs : PruneWrite(r)
    \/ \E r \in Reqs : Deny(r)
    \/ \E r \in Reqs : PassCheck(r)
    \/ \E r \in Reqs : Admit(r)
    \/ \E r \in Reqs : Forward(r)
    \/ \E r \in Reqs : \E o \in LimiterOutcomes(upstream[r]) : UpstreamReturn(r, o)
    \/ \E r \in Reqs : Retire(r)

SpecClients == Init /\ [][NextClients]_vars

\* Every route of the service, one request after the other.
NextService ==
    \/ NextPipeline
    \/ HealthCheck
    \/ \E probe \in {"ok", "failed"} : ApiStatus(probe)
    \/ NotFound
    \/ \E present \in BOOLEAN : ReadRoot(present)

SpecService == Init /\ [][NextService]_vars

\* One request after the other, with an upstream that answers or stays silent.
\* The blocking call returns when the upstream has answered, and the timeout
\* of the client fires when it has not: neither is postponed for ever.
NextLive ==
    \/ NextLimiter
    \/ UpstreamHangs(1)
    \/ UpstreamTimeout(1)

SpecLive ==
    /\ Init
    /\ [][NextLive]_vars
    /\ WF_vars(\E o \in LimiterOutcomes(upstream[1]) : UpstreamReturn(1, o))
    /\ WF_vars(UpstreamTimeout(1))

\* ------------------------------------------------------------------- claims
\* The recorded times of a sequence that lie less than RATE_LIMIT_PERIOD before `now`.
Within(seq, now) == SelectSeq(seq, LAMBDA t : now - t < RATE_LIMIT_PERIOD)

\* C1: for every client, at most RATE_LIMIT_REQUESTS calls are admitted within
\* any window of RATE_LIMIT_PERIOD seconds: of the admitted calls of a client,
\* any two that have RATE_LIMIT_REQUESTS - 1 or more admitted calls between them
\* are RATE_LIMIT_PERIOD seconds or more apart, and a call that finds
\* RATE_LIMIT_REQUESTS admitted calls inside its window is not itself admitted.
C1_AtMostCapacityPerWindow ==
    /\ \A c \in Clients : \A i, j \in 1..Len(admitted[c]) :
          j - i >= RATE_LIMIT_REQUESTS => admitted[c][j] - admitted[c][i] >= RATE_LIMIT_PERIOD
    /\ \A r \in Reqs :
          (limiter[r] = "admitted" /\ pc[r] = "forward")
             => Len(Within(admitted[client_ip[r]], current_time[r])) <= RATE_LIMIT_REQUESTS

\* C1 witness: a call was denied that found RATE_LIMIT_REQUESTS admitted calls
\* of its client inside its window.
C1_Witness ==
    \E r \in Reqs :
        /\ limiter[r] = "denied"
        /\ Len(Within(admitted[client_ip[r]], current_time[r])) = RATE_LIMIT_REQUESTS

\* C2: a call made when the clock is more than RATE_LIMIT_PERIOD past the oldest
\* time recorded for its client is admitted, whatever was denied in between.
C2_AdmissionResumes ==
    \A r \in Reqs : (limiter[r] # "none" /\ elapsed[r]) => limiter[r] = "admitted"

\* C2 witness: a client was denied, and a later call of it, made more than
\* RATE_LIMIT_PERIOD after its oldest recorded time, was admitted next to the
\* times that were still inside the window.
C2_Witness ==
    \E r1, r2 \in Reqs :
        /\ r1 # r2
        /\ client_ip[r1] = client_ip[r2]
        /\ limiter[r1] = "denied"
        /\ limiter[r2] = "admitted"
        /\ elapsed[r2]
        /\ current_time[r2] > current_time[r1]
        /\ Len(rate_limit_store[client_ip[r2]]) = RATE_LIMIT_REQUESTS

\* The positions of check_rate_limit between its read of the record and its return.
InCheck(r) == pc[r] \in {"prune", "check", "append"}

\* C3: the read-prune-check-append sequence on a client's record is atomic: while
\* a request is inside it no other request changes the record, a record never
\* holds more than RATE_LIMIT_REQUESTS times, and every admitted time that is
\* still inside the window is in the record as often as it was admitted.
C3_CheckIsAtomic ==
    /\ [](\A c \in Clients :
            /\ Len(rate_limit_store[c]) <= RATE_LIMIT_REQUESTS
            /\ Within(admitted[c], clock) = Within(rate_limit_store[c], clock))
    /\ [][\A r \in Reqs :
            (InCheck(r) /\ pc'[r] = pc[r])
               => rate_limit_store'[client_ip[r]] = rate_limit_store[client_ip[r]]]_vars

\* C3 witness: a request is between the check and the append with one slot left
\* while another request of the same client is waiting for its handler to run.
C3_Witness ==
    \E r1, r2 \in Reqs :
        /\ r1 # r2
        /\ client_ip[r1] = client_ip[r2]
        /\ pc[r1] = "append"
        /\ pc[r2] = "handler"
        /\ Len(rate_limit_store[client_ip[r1]]) = RATE_LIMIT_REQUESTS - 1

\* The record of a client is full at the time `now`.
AtCapacity(c, now) == Len(Within(rate_limit_store[c], now)) >= RATE_LIMIT_REQUESTS

C5_UpstreamOnlyWhenAdmittedAndValid ==
    \A r \in Reqs :
        /\ upstream[r].called => (limiter[r] = "admitted" /\ Validate(payload[r]))
        /\ response[r].status \in {422, 429} => ~upstream[r].called
        /\ limiter[r] = "denied" => pc[r] = "done"

\* C5 witness: a request with an accepted body was answered 429.
C5_Witness ==
    \E r \in Reqs :
        /\ pc[r] = "done"
        /\ response[r].status = 429
        /\ Validate(payload[r])
        /\ ~upstream[r].called

\* The upstream call failed: it raised, or its answer has no choice or a first
\* choice without content.
UpstreamFailed(o) ==
    \/ o.kind = "raise"
    \/ o.kind = "response" /\ (o.choices = <<>> \/ Head(o.choices) = NoneStr)

\* The texts of the exceptions an upstream failure ends the try block with.
ExceptionTexts ==
    {TransportFailure, AuthFailure, ProviderFailure, IndexErrorText, ResponseTypeErrorText}

\* C6: a request whose upstream call failed is answered 500 with the fixed
\* generic detail, which is not the text of any exception.
C6_UpstreamFailureIsGeneric500 ==
    \A r \in Reqs :
        (pc[r] = "done" /\ upstream[r].called /\ UpstreamFailed(outcome[r]))
           => /\ response[r].status = 500
              /\ response[r].detail = GenericDetail
              /\ response[r].detail \notin ExceptionTexts
              /\ response[r].detail # outcome[r].text

\* C6 witness: the upstream call of a request raised a transport failure.
C6_Witness ==
    \E r \in Reqs :
        /\ pc[r] = "done"
        /\ outcome[r] = Raises(TransportFailure)
        /\ response[r].status = 500

\* The model field of a body is an allow-listed model.
AllowListed(f) == f.tag = "str" /\ f.v \in valid_models

\* C7: a body whose model is absent, null or not allow-listed is not rejected
\* for it; the model passed to the upstream is the requested one when that is
\* allow-listed and gpt-3.5-turbo otherwise, so always allow-listed; the model
\* of a 200 response is the one the upstream reported.
C7_ModelNormalised ==
    \A r \in Reqs :
        /\ response[r].status = 422 =>
              ~(/\ ValidMessages(payload[r].messages)
                /\ ValidMaxTokens(payload[r].max_tokens)
                /\ ValidTemperature(payload[r].temperature))
        /\ upstream[r].called =>
              /\ upstream[r].model \in valid_models
              /\ AllowListed(payload[r].model) => upstream[r].model = payload[r].model.v
              /\ ~AllowListed(payload[r].model) => upstream[r].model = "gpt-3.5-turbo"
        /\ response[r].status = 200 => response[r].model = outcome[r].model

\* C7 witness: a request for a model that is not allow-listed was forwarded with
\* gpt-3.5-turbo and answered 200 with another model, the one the upstream reported.
C7_Witness ==
    \E r \in Reqs :
        /\ payload[r].model = StrOf("gpt-5")
        /\ upstream[r].model = "gpt-3.5-turbo"
        /\ response[r].status = 200
        /\ response[r].model = "gpt-4-0613"

\* C10: a request whose upstream call succeeded is answered 200 with the content
\* of the first choice, the model the upstream reported, and the upstream's three
\* usage counts when it reported usage, no usage otherwise.
C10_SuccessResponse ==
    \A r \in Reqs :
        (pc[r] = "done" /\ upstream[r].called /\ ~UpstreamFailed(outcome[r]))
           => /\ response[r].status = 200
              /\ response[r].response = Head(outcome[r].choices).v
              /\ response[r].model = outcome[r].model
              /\ outcome[r].usage.tag = "usage" => response[r].usage = outcome[r].usage
              /\ outcome[r].usage.tag # "usage" => response[r].usage = NoUsage

\* C10 witness: the upstream returned two choices, usage and a model other than
\* the requested one, and the request was answered 200 with the first choice.
C10_Witness ==
    \E r \in Reqs :
        /\ pc[r] = "done"
        /\ outcome[r] = Completion(<<StrOf("bye"), StrOf("hi")>>, "gpt-4-0613", UsageOf(5, 1, 6))
        /\ upstream[r].model = "gpt-4"
        /\ response[r].status = 200
        /\ response[r].response = "bye"

\* --------------------------------------------------------- the validator alone
\* A request with any body of ValidatorInputs has arrived; the validator runs.
InitValidator ==
    /\ clock = 0
    /\ rate_limit_store = [c \in Clients |-> <<>>]
    /\ running = NoReq
    /\ pc = [r \in Reqs |-> IF r = 1 THEN "received" ELSE "idle"]
    /\ client_ip \in [Reqs -> Contending]
    /\ \E p \in ValidatorInputs : payload = [r \in Reqs |-> IF r = 1 THEN p ELSE NoPayload]
    /\ request = [r \in Reqs |-> NoRequest]
    /\ current_time = [r \in Reqs |-> 0]
    /\ filtered = [r \in Reqs |-> <<>>]
    /\ elapsed = [r \in Reqs |-> FALSE]
    /\ limiter = [r \in Reqs |-> "none"]
    /\ upstream = [r \in Reqs |-> NoCall]
    /\ outcome = [r \in Reqs |-> NoOutcome]
    /\ response = [r \in Reqs |-> NoResponse]
    /\ admitted = [c \in Clients |-> <<>>]
    /\ headers = [r \in Reqs |-> {}]
    /\ aux = NoExchange

NextValidator == ValidateBody(1)

SpecValidator == InitValidator /\ [][NextValidator]_vars

\* The validator has decided on the body of request r, and accepted it.
Validated(r) == pc[r] \notin {"idle", "received"}
Accepted(r) == Validated(r) /\ response[r].status # 422

\* The messages field as the claim describes an accepted one.
MessagesAsClaimed(f) ==
    /\ f.tag = "list"
    /\ Len(f.v) \in 1..50
    /\ \A i \in 1..Len(f.v) :
          /\ f.v[i].role \in {"user", "assistant", "system"}
          /\ f.v[i].content \in 1..10000

\* C8: the validator accepts the messages field exactly when it holds 1 to 50
\* messages, each with a role of user, assistant or system and a content of
\* length 1 to 10000: a body is rejected when its messages are not so, and
\* accepted when they are and its other fields are valid.
C8_MessagesBounds ==
    \A r \in Reqs :
        Validated(r) =>
            /\ Accepted(r) => MessagesAsClaimed(payload[r].messages)
            /\ (/\ MessagesAsClaimed(payload[r].messages)
                /\ ValidMaxTokens(payload[r].max_tokens)
                /\ ValidTemperature(payload[r].temperature)) => Accepted(r)

\* C8 witness: a body of 50 messages whose last content has length 10000 was accepted.
C8_Witness ==
    \E r \in Reqs :
        /\ Accepted(r)
        /\ Len(payload[r].messages.v) = 50
        /\ payload[r].messages.v[50].content = 10000

\* C9: a body whose max_tokens is 0 or MAX_TOKENS + 1 is rejected, and a body
\* whose max_tokens is an integer from 1 to MAX_TOKENS is accepted when its other
\* fields are valid.
C9_MaxTokensBounds ==
    \A r \in Reqs :
        (Validated(r) /\ payload[r].max_tokens.tag = "int") =>
            /\ payload[r].max_tokens.v \in {0, MAX_TOKENS + 1} => ~Accepted(r)
            /\ (/\ payload[r].max_tokens.v \in 1..MAX_TOKENS
                /\ ValidMessages(payload[r].messages)
                /\ ValidTemperature(payload[r].temperature)) => Accepted(r)

\* C9 witness: a body with max_tokens = MAX_TOKENS was accepted.
C9_Witness ==
    \E r \in Reqs : Accepted(r) /\ payload[r].max_tokens = IntOf(MAX_TOKENS)

\* ------------------------------------------------- the limiter, step by step
\* C15 as stated: a call at time `now` drops exactly the recorded times that are
\* older than now - RATE_LIMIT_PERIOD: the list it builds holds every recorded
\* time t with t >= now - RATE_LIMIT_PERIOD, one recorded exactly the period
\* before `now` included.
C15_KeepsExactlyPeriodOld ==
    \A r \in Reqs :
        pc[r] = "prune" =>
            filtered[r] = SelectSeq(rate_limit_store[client_ip[r]],
                                    LAMBDA t : t >= current_time[r] - RATE_LIMIT_PERIOD)

\* A sequence is in non-decreasing order.
NonDecreasing(seq) == \A i, j \in 1..Len(seq) : i < j => seq[i] <= seq[j]

\* C16: a denied call records nothing and an admitted call appends its time
\* once, as the last element: the prune leaves the recorded times less than the
\* period old, a call that returns False leaves that record and the history of
\* admitted times as they are, and a call that returns True leaves that record
\* with its time appended.
C16_DeniedRecordsNothing ==
    [][\A r \in Reqs :
          /\ (pc[r] = "prune" /\ pc'[r] = "check") =>
                rate_limit_store'[client_ip[r]]
                    = Within(rate_limit_store[client_ip[r]], current_time[r])
          /\ (limiter[r] = "none" /\ limiter'[r] = "denied") =>
                /\ rate_limit_store' = rate_limit_store
                /\ admitted' = admitted
          /\ (limiter[r] = "none" /\ limiter'[r] = "admitted") =>
                rate_limit_store'[client_ip[r]]
                    = rate_limit_store[client_ip[r]] \o <<current_time[r]>>]_vars

\* C16 witness: a call was denied and its time is not in the record of its client.
C16_Witness ==
    \E r \in Reqs :
        /\ limiter[r] = "denied"
        /\ pc[r] = "done"
        /\ Len(rate_limit_store[client_ip[r]]) = RATE_LIMIT_REQUESTS
        /\ \A i \in 1..Len(rate_limit_store[client_ip[r]]) :
              rate_limit_store[client_ip[r]][i] < current_time[r]

\* C19: once the calls on it have returned, the record of a client holds at
\* most RATE_LIMIT_REQUESTS times, in non-decreasing order.
C19_RecordBoundedAndOrdered ==
    \A c \in Clients :
        (\A r \in Reqs : ~(InCheck(r) /\ client_ip[r] = c)) =>
            /\ Len(rate_limit_store[c]) <= RATE_LIMIT_REQUESTS
            /\ NonDecreasing(rate_limit_store[c])

\* C19 witness: a record holds RATE_LIMIT_REQUESTS times, not all the same, and
\* no call is working on it.
C19_Witness ==
    \E c \in Clients :
        /\ \A r \in Reqs : ~(InCheck(r) /\ client_ip[r] = c)
        /\ Len(rate_limit_store[c]) = RATE_LIMIT_REQUESTS
        /\ rate_limit_store[c][1] < rate_limit_store[c][RATE_LIMIT_REQUESTS]

\* seq2 is seq1 with at most one time appended.
ExtendsByAtMostOne(seq1, seq2) ==
    /\ Len(seq2) \in {Len(seq1), Len(seq1) + 1}
    /\ SubSeq(seq2, 1, Len(seq1)) = seq1

\* C20: an admitted request keeps its slot: no step removes a recorded time that
\* is less than the period old, and the step in which the handler answers,
\* with 500 after an upstream failure as with 200, leaves every record as it is.
C20_AdmittedSlotIsKept ==
    [][/\ \A c \in Clients :
             ExtendsByAtMostOne(Within(rate_limit_store[c], clock),
                                Within(rate_limit_store'[c], clock))
       /\ \A r \in Reqs :
             (pc[r] = "upstream" /\ pc'[r] = "done") =>
                 /\ rate_limit_store' = rate_limit_store
                 /\ limiter'[r] = "admitted"]_vars

\* C20 witness: a request was answered 500 after an upstream failure and both
\* slots of its client are taken by times inside the window.
C20_Witness ==
    \E r \in Reqs :
        /\ pc[r] = "done"
        /\ response[r].status = 500
        /\ limiter[r] = "admitted"
        /\ Len(Within(rate_limit_store[client_ip[r]], clock)) = RATE_LIMIT_REQUESTS

\* ------------------------------------------------ max_tokens sent upstream
\* C18 as stated: every call made to the upstream carries an integer max_tokens
\* in 1..MAX_TOKENS: the value of the client when the body gives one, the
\* default 1024 when the body omits it or gives null.
C18_UpstreamMaxTokensIsBoundedInteger ==
    \A r \in Reqs :
        upstream[r].called =>
            /\ upstream[r].max_tokens.tag = "int"
            /\ upstream[r].max_tokens.v \in 1..MAX_TOKENS
            /\ upstream[r].max_tokens.v =
                   IF payload[r].max_tokens.tag = "int" THEN payload[r].max_tokens.v
                   ELSE 1024

\* ------------------------------------------------------- one record per key
\* C17: the rate limit is per key: a step changes the record of a client only
\* when it is a step of a check_rate_limit call for that client, and a call is
\* denied exactly when the record of its own client holds RATE_LIMIT_REQUESTS
\* or more times less than the period before its current time, whatever the
\* records of the other clients hold.
C17_PerKey ==
    [][/\ \A c \in Clients :
             rate_limit_store'[c] # rate_limit_store[c] =>
                 \E r \in Reqs : client_ip[r] = c /\ InCheck(r) /\ pc'[r] # pc[r]
       /\ \A r \in Reqs :
             (limiter[r] = "none" /\ limiter'[r] # "none") =>
                 (limiter'[r] = "denied"
                    <=> Len(Within(rate_limit_store[client_ip[r]], current_time[r]))
                            >= RATE_LIMIT_REQUESTS)]_vars

\* C17 witness: a call was admitted while another client was at capacity.
C17_Witness ==
    \E r \in Reqs, c \in Clients :
        /\ c # client_ip[r]
        /\ pc[r] = "forward"
        /\ limiter[r] = "admitted"
        /\ AtCapacity(c, current_time[r])
        /\ Len(rate_limit_store[client_ip[r]]) = 1

\* --------------------------------------------------- requests side by side
\* C12 as stated: requests of different clients are not serialized: while a
\* request waits for its upstream call to return, a received request of another
\* client can be validated and a validated one can enter the rate limiter.
C12_OtherClientsProceed ==
    \A r1, r2 \in Reqs :
        (pc[r1] = "upstream" /\ client_ip[r2] # client_ip[r1]) =>
            /\ pc[r2] = "received" => ENABLED ValidateBody(r2)
            /\ pc[r2] = "handler" => ENABLED PruneRead(r2)

\* ---------------------------------------------------------- the other routes
\* C11: GET /health answers 200 without calling the upstream, and GET
\* /api/status probes the upstream and answers 200 with api_available false
\* when the probe failed and true when it succeeded.
C11_HealthAndStatus ==
    /\ aux.path = "/health" => (aux.status = 200 /\ aux.probe = "none")
    /\ aux.path = "/api/status" =>
          /\ aux.status = 200
          /\ aux.probe \in {"ok", "failed"}
          /\ aux.api_available = (IF aux.probe = "ok" THEN "True" ELSE "False")

\* C11 witness: /api/status was asked while the upstream failed, for the probe
\* and for a chat request.
C11_Witness ==
    /\ aux.path = "/api/status"
    /\ aux.probe = "failed"
    /\ \E r \in Reqs : response[r].status = 500

\* C14 as stated: every response carries the four security headers, whatever
\* built it: the route, a 404, a 422, a 429, the 500 of the chat handler or the
\* 500 of internal_error_handler.
C14_EveryResponseSecured ==
    /\ \A r \in Reqs : response[r].status # 0 => SecurityHeaders \subseteq headers[r]
    /\ aux.status # 0 => SecurityHeaders \subseteq aux.headers

\* ------------------------------------------------------ the upstream call ends
\* C13: every request forwarded to the upstream eventually has its answer, a
\* 200 or a 500, also when the upstream never answers: the call then ends by
\* the timeout of the client, and the handler answers the generic 500.
C13_ForwardedTerminates ==
    /\ \A r \in Reqs :
          (pc[r] \in {"upstream", "hung"})
              ~> (pc[r] = "done" /\ response[r].status \in {200, 500})
    /\ [](\A r \in Reqs :
             outcome[r] = Raises(TimeoutFailure) =>
                 response[r] = ErrorResponse(500, GenericDetail))

\* C13 witness: a call the upstream never answered ended by the timeout, and
\* the request was answered 500.
C13_Witness ==
    \E r \in Reqs :
        /\ pc[r] = "done"
        /\ outcome[r] = Raises(TimeoutFailure)
        /\ response[r].status = 500

====
